---- MODULE Spec2Model ----
(***************************************************************************)
(* Model of gomodguard (src/gomodguard.go): the Processor that derives the *)
(* blocked modules of a go.mod file from the allow configuration and lints *)
(* the imports of Go files against them.                                   *)
(*                                                                         *)
(* A Go string is a sequence of characters (one-character TLA+ strings);   *)
(* the fixed pieces of a format string are kept as single elements.  File  *)
(* names are atoms: the code never looks inside them.                      *)
(***************************************************************************)
EXTENDS Integers, Sequences, FiniteSets, TLC

VARIABLES pc, goMod, modfile, config, blockedModules, result,
          filenames, idx, returned, marks, reads, parses, calls, submitted

vars == <<pc, goMod, modfile, config, blockedModules, result,
          filenames, idx, returned, marks, reads, parses, calls, submitted>>

(***************************************************************************)
(* Bounds of the model.                                                    *)
(***************************************************************************)
MaxReq == 3
MaxAllow == 1
MaxRules == 2
MaxCalls == 2
MaxSubmitted == 3

\* The two quote characters of Go; the back quote is written out.
DQ == "\""
BQ == "BACKQUOTE"

(***************************************************************************)
(* package strings                                                         *)
(***************************************************************************)
ToLowerCh(c) ==
  CASE c = "E" -> "e"
    [] c = "F" -> "f"
    [] c = "G" -> "g"
    [] c = "B" -> "b"
    [] c = "S" -> "s"
    [] OTHER -> c

ToLower(s) == [i \in 1..Len(s) |-> ToLowerCh(s[i])]

HasPrefix(s, prefix) ==
  /\ Len(s) >= Len(prefix)
  /\ SubSeq(s, 1, Len(prefix)) = prefix

RECURSIVE EqualFoldFrom(_, _, _)
EqualFoldFrom(s, t, i) ==
  IF i > Len(s) THEN i > Len(t)
  ELSE IF i > Len(t) THEN FALSE
  ELSE IF s[i] = t[i] \/ ToLowerCh(s[i]) = ToLowerCh(t[i])
       THEN EqualFoldFrom(s, t, i + 1)
       ELSE FALSE

EqualFold(s, t) == EqualFoldFrom(s, t, 1)

RECURSIVE TrimLeft(_, _)
TrimLeft(s, cut) ==
  IF s # <<>> /\ Head(s) = cut THEN TrimLeft(Tail(s), cut) ELSE s

RECURSIVE TrimRight(_, _)
TrimRight(s, cut) ==
  IF s # <<>> /\ s[Len(s)] = cut THEN TrimRight(SubSeq(s, 1, Len(s) - 1), cut) ELSE s

Trim_LeftOnly(s, cut) == TrimLeft(s, cut)

Trim(s, cut) == TrimRight(TrimLeft(s, cut), cut)

(***************************************************************************)
(* Policy: which requirements of go.mod are blocked.                       *)
(***************************************************************************)
RECURSIVE isAllowedModuleDomainFrom(_, _, _)
isAllowedModuleDomainFrom(domains, module, i) ==
  IF i > Len(domains) THEN FALSE
  ELSE IF HasPrefix(ToLower(module), ToLower(domains[i])) THEN TRUE
  ELSE isAllowedModuleDomainFrom(domains, module, i + 1)

isAllowedModuleDomain(cfg, module) ==
  isAllowedModuleDomainFrom(cfg.Allow.Domains, module, 1)

RECURSIVE isAllowedModuleFrom(_, _, _)
isAllowedModuleFrom(modules, module, i) ==
  IF i > Len(modules) THEN FALSE
  ELSE IF EqualFold(module, modules[i]) THEN TRUE
  ELSE isAllowedModuleFrom(modules, module, i + 1)

isAllowedModule(cfg, module) ==
  isAllowedModuleFrom(cfg.Allow.Modules, module, 1)

RECURSIVE setBlockedModulesFrom(_, _, _, _)
setBlockedModulesFrom(cfg, require, i, blocked) ==
  IF i > Len(require) THEN blocked
  ELSE IF ~require[i].Indirect
          /\ ~isAllowedModuleDomain(cfg, require[i].Path)
          /\ ~isAllowedModule(cfg, require[i].Path)
       THEN setBlockedModulesFrom(cfg, require, i + 1, Append(blocked, require[i].Path))
       ELSE setBlockedModulesFrom(cfg, require, i + 1, blocked)

setBlockedModules_Reversed(cfg, require) ==
  LET fwd == setBlockedModulesFrom(cfg, require, 1, <<>>)
  IN  [i \in 1..Len(fwd) |-> fwd[Len(fwd) + 1 - i]]

setBlockedModules_DomainsOnly(cfg, require) ==
  setBlockedModulesFrom([cfg EXCEPT !.Allow.Modules = <<>>], require, 1, <<>>)

setBlockedModules(cfg, require) == setBlockedModulesFrom(cfg, require, 1, <<>>)

(***************************************************************************)
(* Replacements.                                                           *)
(***************************************************************************)
ReplacementString(r) ==
  <<BQ>> \o r.Replacement \o <<BQ, " should be used instead. reason: ">> \o r.Reason

RECURSIVE HasReplacementFrom(_, _, _)
HasReplacementFrom(r, pkg, i) ==
  IF i > Len(r.Modules) THEN FALSE
  ELSE IF HasPrefix(ToLower(pkg), ToLower(r.Modules[i])) THEN TRUE
  ELSE HasReplacementFrom(r, pkg, i + 1)

HasReplacement(r, pkg) == HasReplacementFrom(r, pkg, 1)

RECURSIVE GetFrom(_, _, _)
GetFrom(r, pkg, i) ==
  IF i > Len(r) THEN 0
  ELSE IF HasReplacement(r[i], pkg) THEN i
  ELSE GetFrom(r, pkg, i + 1)

RECURSIVE Get_LastFrom(_, _, _)
Get_LastFrom(r, pkg, i) ==
  IF i < 1 THEN 0
  ELSE IF HasReplacement(r[i], pkg) THEN i
  ELSE Get_LastFrom(r, pkg, i - 1)

Get_Last(r, pkg) == Get_LastFrom(r, pkg, Len(r))

\* The index of the rule Get returns a pointer to; 0 is nil.
Get(r, pkg) == GetFrom(r, pkg, 1)

(***************************************************************************)
(* The files a scan can be given, as the operating system and go/parser    *)
(* present them: ReadFile fails or yields the bytes; ParseFile fails (and  *)
(* still yields the imports it got to) or yields the import declarations   *)
(* in source order.  Path.Value is the import literal, quotes included.    *)
(***************************************************************************)
Lit_ef == <<DQ, "e", "/", "f", DQ>>
Lit_ef_raw == <<BQ, "e", "/", "f", BQ>>
Lit_g == <<DQ, "g", DQ>>
Lit_EFs == <<DQ, "E", "/", "F", "/", "s", DQ>>
Lit_efb == <<DQ, "e", "/", "f", "b", DQ>>

Files ==
  [f \in {"unreadable.go", "badsyntax.go", "one.go", "two.go"} |->
     CASE f = "unreadable.go" ->
            [readable |-> FALSE, syntaxOK |-> FALSE, imports |-> <<>>]
       [] f = "badsyntax.go" ->
            [readable |-> TRUE, syntaxOK |-> FALSE,
             imports |-> << [Value |-> Lit_ef, Line |-> 3, Column |-> 8] >>]
       [] f = "one.go" ->
            [readable |-> TRUE, syntaxOK |-> TRUE,
             imports |-> << [Value |-> Lit_ef, Line |-> 4, Column |-> 2],
                            [Value |-> Lit_ef_raw, Line |-> 5, Column |-> 2],
                            [Value |-> Lit_g, Line |-> 6, Column |-> 2] >>]
       [] OTHER ->
            [readable |-> TRUE, syntaxOK |-> TRUE,
             imports |-> << [Value |-> Lit_EFs, Line |-> 3, Column |-> 8],
                            [Value |-> Lit_efb, Line |-> 4, Column |-> 8] >>]]

FileNames == DOMAIN Files

NoError == <<>>
NilBytes == <<>>

ReadFile(filename) ==
  IF Files[filename].readable
  THEN [data |-> <<"bytes of", filename>>, err |-> NoError]
  ELSE [data |-> NilBytes,
        err |-> <<"open ", filename, ": no such file or directory">>]

\* Without bytes there is no package clause to find.
ParseFile(filename, data) ==
  IF data = NilBytes
  THEN [imports |-> <<>>,
        err |-> <<filename, ":1:1: expected package, found EOF">>]
  ELSE IF Files[data[2]].syntaxOK
  THEN [imports |-> Files[data[2]].imports, err |-> NoError]
  ELSE [imports |-> Files[data[2]].imports,
        err |-> <<filename, ":9:1: expected declaration">>]

(***************************************************************************)
(* Processor: linting.                                                     *)
(***************************************************************************)
NoPosition == [Filename |-> "", Line |-> 0, Column |-> 0]

blockedReason_DoubleQuoted(pkg) ==
  <<"import of package ", DQ>> \o pkg
    \o <<DQ, " is blocked because the module is not in the allowed modules list.">>

blockedReason(pkg) ==
  <<"import of package ", BQ>> \o pkg
    \o <<BQ, " is blocked because the module is not in the allowed modules list.">>

RECURSIVE isBlockedPackageFrom(_, _, _)
isBlockedPackageFrom(blocked, pkg, i) ==
  IF i > Len(blocked) THEN FALSE
  ELSE IF HasPrefix(ToLower(pkg), ToLower(blocked[i])) THEN TRUE
  ELSE isBlockedPackageFrom(blocked, pkg, i + 1)

isBlockedPackage_Segments(blocked, pkg) ==
  \E i \in 1..Len(blocked) :
    /\ HasPrefix(ToLower(pkg), ToLower(blocked[i]))
    /\ (Len(pkg) = Len(blocked[i]) \/ pkg[Len(blocked[i]) + 1] = "/")

isBlockedPackage(blocked, pkg) == isBlockedPackageFrom(blocked, pkg, 1)

addError_Prepend(res, filename, imp, reason) ==
  << [FileName |-> filename,
      LineNumber |-> imp.Line,
      Position |-> [Filename |-> filename, Line |-> imp.Line, Column |-> imp.Column],
      Reason |-> reason] >> \o res

\* fileset.Position(pos) of an import of the one file of the file set.
addError(res, filename, imp, reason) ==
  Append(res, [FileName |-> filename,
               LineNumber |-> imp.Line,
               Position |-> [Filename |-> filename, Line |-> imp.Line,
                             Column |-> imp.Column],
               Reason |-> reason])

RECURSIVE processImports(_, _, _, _, _, _)
processImports(cfg, blocked, res, filename, imports, i) ==
  IF i > Len(imports) THEN res
  ELSE LET pkg == Trim(imports[i].Value, DQ)
           replacement == Get(cfg.Replacements, pkg)
           reason == IF replacement # 0
                     THEN blockedReason(pkg) \o <<" ">>
                            \o ReplacementString(cfg.Replacements[replacement])
                     ELSE blockedReason(pkg)
       IN  IF isBlockedPackage(blocked, pkg)
           THEN processImports(cfg, blocked,
                               addError(res, filename, imports[i], reason),
                               filename, imports, i + 1)
           ELSE processImports(cfg, blocked, res, filename, imports, i + 1)

syntaxResult(filename, err) ==
  [FileName |-> filename, LineNumber |-> 0, Position |-> NoPosition,
   Reason |-> <<"invalid syntax, file cannot be linted (">> \o err \o <<")">>]

process_NoReturn(cfg, blocked, res, filename, data) ==
  LET parsed == ParseFile(filename, data)
      res1 == IF parsed.err # NoError
              THEN Append(res, syntaxResult(filename, parsed.err))
              ELSE res
  IN  processImports(cfg, blocked, res1, filename, parsed.imports, 1)

process(cfg, blocked, res, filename, data) ==
  LET parsed == ParseFile(filename, data)
  IN  IF parsed.err # NoError
      THEN Append(res, syntaxResult(filename, parsed.err))
      ELSE processImports(cfg, blocked, res, filename, parsed.imports, 1)

readResult(filename, err) ==
  [FileName |-> filename, LineNumber |-> 0, Position |-> NoPosition,
   Reason |-> <<"unable to read file, file cannot be linted (">> \o err \o <<")">>]

\* One iteration of the loop of ProcessFiles.
ProcessFile(cfg, blocked, res, filename) ==
  LET rd == ReadFile(filename)
      res1 == IF rd.err # NoError THEN Append(res, readResult(filename, rd.err))
              ELSE res
  IN  process(cfg, blocked, res1, filename, rd.data)

(***************************************************************************)
(* Inputs: go.mod files, configurations and file lists.                    *)
(***************************************************************************)
SeqsUpTo(S, n) == UNION { [1..k -> S] : k \in 0..n }

P_ef == <<"e", "/", "f">>
P_efb == <<"e", "/", "f", "b">>
P_E == <<"E">>
P_g == <<"g">>
P_G == <<"G">>

Require(path, indirect) == [Path |-> path, Indirect |-> indirect]

PolicyRequires == { Require(p, i) : p \in {P_ef, P_efb, P_G}, i \in BOOLEAN }
PolicyDomains == { <<"E", "/", "F">>, <<"g", "/">> }
PolicyModules == { <<"e", "/", "F">>, P_g }

ScanGoMods ==
  { <<>>,
    << Require(P_ef, FALSE) >>,
    << Require(P_ef, FALSE), Require(P_E, FALSE), Require(P_g, TRUE) >>,
    << Require(P_g, FALSE) >> }
ScanAllows ==
  { [Modules |-> <<>>, Domains |-> <<>>],
    [Modules |-> <<>>, Domains |-> << P_G >>] }

Rule_ef ==
  [Modules |-> << P_ef >>, Replacement |-> <<"h", "/", "f">>,
   Reason |-> <<"unmaintained">>]
Rule_g_efb ==
  [Modules |-> << P_G, P_efb >>, Replacement |-> <<"h", "/", "g">>,
   Reason |-> <<"licence">>]
Rules == { Rule_ef, Rule_g_efb }

NoModfile == [Require |-> <<>>]

Fresh ==
  /\ pc = "new"
  /\ modfile = NoModfile
  /\ blockedModules = <<>>
  /\ result = <<>>
  /\ filenames = <<>>
  /\ idx = 0
  /\ returned = <<>>
  /\ marks = <<>>
  /\ reads = 0
  /\ parses = 0
  /\ calls = 0
  /\ submitted = 0

Init ==
  /\ Fresh
  /\ \/ /\ goMod \in { [status |-> "ok", Require |-> r] : r \in ScanGoMods }
        /\ config \in { [Allow |-> a, Replacements |-> r] :
                          a \in ScanAllows, r \in SeqsUpTo(Rules, MaxRules) }
     \/ /\ goMod \in { [status |-> s, Require |-> <<>>] :
                         s \in {"unreadable", "unparsable"} }
        /\ config = [Allow |-> [Modules |-> <<>>, Domains |-> <<>>],
                     Replacements |-> <<>>]

InitPolicy ==
  /\ Fresh
  /\ goMod \in { [status |-> "ok", Require |-> r] :
                    r \in SeqsUpTo(PolicyRequires, MaxReq) }
  /\ config \in { [Allow |-> [Modules |-> m, Domains |-> d], Replacements |-> <<>>] :
                     m \in SeqsUpTo(PolicyModules, MaxAllow),
                     d \in SeqsUpTo(PolicyDomains, MaxAllow) }

(***************************************************************************)
(* Operations.                                                             *)
(***************************************************************************)
NewProcessor ==
  /\ pc = "new"
  /\ IF goMod.status # "ok"
     THEN /\ pc' = "failed"
          /\ UNCHANGED <<modfile, blockedModules, result>>
     ELSE /\ pc' = "idle"
          /\ modfile' = [Require |-> goMod.Require]
          /\ result' = <<>>
          /\ blockedModules' = setBlockedModules(config, goMod.Require)
  /\ UNCHANGED <<goMod, config, filenames, idx, returned, marks, reads, parses,
                 calls, submitted>>

ProcessFiles_NoShortCut(fs) ==
  /\ pc = "idle"
  /\ calls < MaxCalls
  /\ calls' = calls + 1
  /\ submitted' = submitted + Len(fs)
  /\ filenames' = fs
  /\ marks' = << Len(result) >>
  /\ pc' = "loop"
  /\ idx' = 1
  /\ UNCHANGED <<returned, goMod, modfile, config, blockedModules, result, reads,
                 parses>>

\* The call, up to the first iteration of its loop.
ProcessFiles(fs) ==
  /\ pc = "idle"
  /\ calls < MaxCalls
  /\ calls' = calls + 1
  /\ submitted' = submitted + Len(fs)
  /\ filenames' = fs
  /\ marks' = << Len(result) >>
  /\ IF Len(blockedModules) = 0
     THEN /\ returned' = result
          /\ UNCHANGED <<pc, idx>>
     ELSE /\ pc' = "loop"
          /\ idx' = 1
          /\ UNCHANGED returned
  /\ UNCHANGED <<goMod, modfile, config, blockedModules, result, reads, parses>>

\* One iteration: ReadFile, then process, which always parses.
ProcessFilesLoop ==
  /\ pc = "loop"
  /\ idx <= Len(filenames)
  /\ result' = ProcessFile(config, blockedModules, result, filenames[idx])
  /\ reads' = reads + 1
  /\ parses' = parses + 1
  /\ marks' = Append(marks, Len(result'))
  /\ idx' = idx + 1
  /\ UNCHANGED <<pc, goMod, modfile, config, blockedModules, filenames, returned,
                 calls, submitted>>

ProcessFilesReturn ==
  /\ pc = "loop"
  /\ idx > Len(filenames)
  /\ returned' = result
  /\ pc' = "idle"
  /\ UNCHANGED <<goMod, modfile, config, blockedModules, result, filenames, idx,
                 marks, reads, parses, calls, submitted>>

Next ==
  \/ NewProcessor
  \/ \E fs \in SeqsUpTo(FileNames, MaxSubmitted - submitted) : ProcessFiles(fs)
  \/ ProcessFilesLoop
  \/ ProcessFilesReturn

Spec == Init /\ [][Next]_vars

NextPolicy == NewProcessor

SpecPolicy == InitPolicy /\ [][NextPolicy]_vars

(***************************************************************************)
(* Vocabulary of the properties.  The matching rules are restated here     *)
(* character by character, apart from the loops of the code.               *)
(***************************************************************************)
PrefixCI(prefix, s) ==
  /\ Len(prefix) <= Len(s)
  /\ \A k \in 1..Len(prefix) : ToLowerCh(prefix[k]) = ToLowerCh(s[k])

EqualCI(s, t) == Len(s) = Len(t) /\ PrefixCI(s, t)

AllowCovers(cfg, path) ==
  \/ \E d \in 1..Len(cfg.Allow.Domains) : PrefixCI(cfg.Allow.Domains[d], path)
  \/ \E m \in 1..Len(cfg.Allow.Modules) : EqualCI(cfg.Allow.Modules[m], path)

BlockedRequirement(r) == ~r.Indirect /\ ~AllowCovers(config, r.Path)

\* The files the current (or last) call has been through, and what each added.
Processed == 1..(Len(marks) - 1)
Seg(i) == SubSeq(result, marks[i] + 1, marks[i + 1])
FileOf(i) == Files[filenames[i]]
Linted(i) == FileOf(i).readable /\ FileOf(i).syntaxOK

\* An import literal without the double quotes around it; a raw literal
\* (in back quotes) is left as it is, as strings.Trim(value, "\"") leaves it.
PathOf(lit) ==
  IF Len(lit) >= 2 /\ lit[1] = DQ /\ lit[Len(lit)] = DQ
  THEN SubSeq(lit, 2, Len(lit) - 1)
  ELSE lit

BlockedPath(path) ==
  \E b \in 1..Len(blockedModules) : PrefixCI(blockedModules[b], path)

\* The diagnostic of a blocked import, and the import it is about.
IsImportDiag(d) == d.LineNumber > 0
ImportOf(d) ==
  LET imports == Files[d.FileName].imports
  IN  imports[CHOOSE j \in 1..Len(imports) : imports[j].Line = d.LineNumber]

ImportDiags == { d \in { result[k] : k \in 1..Len(result) } : IsImportDiag(d) }

MatchingRules(path) ==
  { r \in 1..Len(config.Replacements) :
      \E m \in 1..Len(config.Replacements[r].Modules) :
        PrefixCI(config.Replacements[r].Modules[m], path) }

Least(S) == CHOOSE x \in S : \A y \in S : x <= y

BackQuotedBase(path) ==
  <<"import of package ", BQ>> \o path
    \o <<BQ, " is blocked because the module is not in the allowed modules list.">>

DoubleQuotedBase(path) ==
  <<"import of package ", DQ>> \o path
    \o <<DQ, " is blocked because the module is not in the allowed modules list.">>

(***************************************************************************)
(* Policy claims, under SpecPolicy.                                        *)
(***************************************************************************)
\* C1: after NewProcessor a module path is in blockedModules if and only if
\* some requirement with that path is direct, no lower-cased allowed domain is
\* a prefix of the lower-cased path and the path equals no allowed module,
\* case-insensitively.
C1_BlockedIffDirectAndNotAllowed ==
  pc = "idle" =>
    \A p \in { r.Path : r \in PolicyRequires } :
      (\E b \in 1..Len(blockedModules) : blockedModules[b] = p)
        <=> (\E j \in 1..Len(modfile.Require) :
               /\ modfile.Require[j].Path = p
               /\ BlockedRequirement(modfile.Require[j]))

C1_Witness ==
  /\ pc = "idle"
  /\ Len(blockedModules) = 1
  /\ \E j \in 1..Len(modfile.Require) :
       /\ ~modfile.Require[j].Indirect
       /\ modfile.Require[j].Path # blockedModules[1]
       /\ \E m \in 1..Len(config.Allow.Modules) :
            /\ EqualCI(config.Allow.Modules[m], modfile.Require[j].Path)
            /\ config.Allow.Modules[m] # modfile.Require[j].Path

\* C9: blockedModules is the subsequence, in the order of go.mod, of the
\* direct requirements no allow rule covers; each requirement is judged on its
\* own, so a path required k times as such appears k times.
C9_BlockedIsOrderedSubsequence ==
  pc = "idle" =>
    LET kept == SelectSeq(modfile.Require, BlockedRequirement)
    IN  blockedModules = [i \in 1..Len(kept) |-> kept[i].Path]

\* A direct requirement that an allow rule covers, between two blocked ones.
C9_Witness ==
  /\ pc = "idle"
  /\ Len(modfile.Require) = 3
  /\ ~modfile.Require[2].Indirect
  /\ blockedModules = << modfile.Require[1].Path, modfile.Require[3].Path >>
  /\ blockedModules[1] # blockedModules[2]

C9_WitnessDuplicate ==
  /\ pc = "idle"
  /\ Len(blockedModules) >= 2
  /\ blockedModules[1] = blockedModules[2]

(***************************************************************************)
(* Scan claims, under Spec.                                                *)
(***************************************************************************)
\* C2: a file whose read fails gets exactly one diagnostic, with line 0 and
\* the read-error message, and the files after it are still processed.
C2_ReadFailureOneDiagnostic ==
  /\ \A i \in Processed :
       ~FileOf(i).readable =>
         /\ Len(Seg(i)) = 1
         /\ Seg(i)[1].FileName = filenames[i]
         /\ Seg(i)[1].LineNumber = 0
         /\ HasPrefix(Seg(i)[1].Reason, <<"unable to read file, file cannot be linted (">>)
  /\ (pc = "idle" /\ calls > 0 /\ blockedModules # <<>>) =>
       Len(marks) = Len(filenames) + 1

\* C3: the result a call returns holds the diagnostics of the files of that
\* call only, none of an earlier call.
C3_ResultOfThisCallOnly ==
  (pc = "idle" /\ calls > 0) =>
    returned = SubSeq(result, marks[1] + 1, Len(result))

\* C4: with no blocked module every call returns an empty result and reads
\* and parses no file, whatever the file list and however many calls came
\* before.
C4_NoBlockedModulesNoScan ==
  (pc # "new" /\ blockedModules = <<>>) =>
    /\ pc # "loop"
    /\ reads = 0
    /\ parses = 0
    /\ result = <<>>
    /\ returned = <<>>

C4_Witness ==
  /\ pc = "idle"
  /\ blockedModules = <<>>
  /\ modfile.Require # <<>>
  /\ calls = 2
  /\ Len(filenames) >= 2

C5_WitnessSeveral ==
  /\ Len(blockedModules) = 2
  /\ \E i \in Processed : filenames[i] = "two.go" /\ Len(Seg(i)) = 2

\* What each file added names that file, and the imports flagged in a file
\* come in the order of their lines.
C6_FileOrder ==
  \A i \in Processed :
    \A k \in 1..Len(Seg(i)) :
      /\ Seg(i)[k].FileName = filenames[i]
      /\ \A l \in 1..(k - 1) :
           (IsImportDiag(Seg(i)[l]) /\ IsImportDiag(Seg(i)[k])) =>
             Seg(i)[l].LineNumber < Seg(i)[k].LineNumber

C6_AppendOnly ==
  /\ Len(result) <= Len(result')
  /\ SubSeq(result', 1, Len(result)) = result

\* C6: the diagnostics of a call are in the order of its files and, within a
\* file, of its imports, and a diagnostic once appended stays where it is.
C6_OrderedAndAppendOnly == [](C6_FileOrder) /\ [][C6_AppendOnly]_vars

C6_Witness ==
  /\ Len(marks) = 3
  /\ filenames[1] # filenames[2]
  /\ Len(Seg(1)) = 2
  /\ IsImportDiag(Seg(1)[1])
  /\ Len(Seg(2)) >= 1
  /\ marks[1] > 0

\* C7: a file that is read but does not parse gets exactly one diagnostic,
\* with line 0 and the invalid-syntax message, none for its imports, and the
\* files after it are still processed.
C7_ParseFailureOneDiagnostic ==
  /\ \A i \in Processed :
       (FileOf(i).readable /\ ~FileOf(i).syntaxOK) =>
         /\ Len(Seg(i)) = 1
         /\ Seg(i)[1].FileName = filenames[i]
         /\ Seg(i)[1].LineNumber = 0
         /\ HasPrefix(Seg(i)[1].Reason, <<"invalid syntax, file cannot be linted (">>)
  /\ (pc = "idle" /\ calls > 0 /\ blockedModules # <<>>) =>
       Len(marks) = Len(filenames) + 1

C7_Witness ==
  /\ pc = "idle"
  /\ Len(filenames) = 2
  /\ filenames[1] = "badsyntax.go"
  /\ BlockedPath(PathOf(FileOf(1).imports[1].Value))
  /\ Len(marks) = 3
  /\ Len(Seg(2)) >= 1
  /\ IsImportDiag(Seg(2)[1])

\* C8: the message of a blocked import is the base message alone when no
\* replacement rule has a module that is a case-insensitive prefix of the
\* path, and otherwise the base message, a space, and the replacement and
\* reason of the first such rule in declared order.
C8_FirstMatchingReplacement ==
  \A d \in ImportDiags :
    LET path == PathOf(ImportOf(d).Value)
        rules == MatchingRules(path)
    IN  /\ Get(config.Replacements, path) = IF rules = {} THEN 0 ELSE Least(rules)
        /\ d.Reason =
             IF rules = {}
             THEN BackQuotedBase(path)
             ELSE BackQuotedBase(path) \o <<" ", BQ>>
                    \o config.Replacements[Least(rules)].Replacement
                    \o <<BQ, " should be used instead. reason: ">>
                    \o config.Replacements[Least(rules)].Reason

C8_Witness ==
  \E d \in ImportDiags :
    LET rules == MatchingRules(PathOf(ImportOf(d).Value))
    IN  /\ Cardinality(rules) = 2
        /\ config.Replacements[1] # config.Replacements[2]
        /\ config.Replacements[1] = Rule_g_efb

C8_WitnessNoRule ==
  /\ config.Replacements # <<>>
  /\ \E d \in ImportDiags : MatchingRules(PathOf(ImportOf(d).Value)) = {}

\* C10 as stated: the base message of a blocked import wraps the import path
\* in double quotes.
C10_DoubleQuotedBaseMessage ==
  \A d \in ImportDiags :
    LET lit == ImportOf(d).Value
    IN  HasPrefix(d.Reason, DoubleQuotedBase(SubSeq(lit, 2, Len(lit) - 1)))

\* C10 amended: the base message of a blocked import wraps the import path in
\* back quotes, the path being the import literal without the double quotes
\* around it.
C10_BackQuotedBaseMessage ==
  \A d \in ImportDiags :
    LET lit == ImportOf(d).Value
    IN  /\ lit[1] = DQ /\ lit[Len(lit)] = DQ
        /\ HasPrefix(d.Reason, BackQuotedBase(SubSeq(lit, 2, Len(lit) - 1)))

C10_Witness ==
  \E d \in ImportDiags :
    /\ ImportOf(d).Value = Lit_EFs
    /\ d.Reason = BackQuotedBase(<<"E", "/", "F", "/", "s">>)

====
